---------------------------- MODULE Spec2Model ----------------------------
(***************************************************************************)
(* A model of the banshee execution engine (src/banshee/src/engine.rs):    *)
(* the Engine's global memory, exit_code and had_error, the ELF preload of *)
(* translate_elf, the TCDM and Cpu set-up of execute_inner, the hart       *)
(* threads it spawns and joins, and the callbacks (binary_load,            *)
(* binary_store, binary_csr_read, binary_csr_write, the three aborts and   *)
(* binary_trace) the translated code invokes on its Cpu.                   *)
(*                                                                         *)
(* The translated guest code itself is opaque: a running hart may invoke   *)
(* any callback with any argument of the bounded sets below, and may       *)
(* return at any time.  All guest words and hart ids of the model are far  *)
(* below 2^31, so the u32/usize/u64 casts of the source (addr as u64,      *)
(* num_cores as u32, hartid as u32) preserve every value that occurs.      *)
(***************************************************************************)
EXTENDS Integers, Sequences, FiniteSets, TLC

(* ------------------------------ bounds -------------------------------- *)

\* Largest word a guest store or CSR write carries.
MaxVal == 2
\* Callbacks the harts of one run invoke in total: under Spec, which runs
\* the harts of one cluster on one image, and under SpecWide, which runs every
\* configuration on every image.
MaxCalls == 3
WideCalls == 2
\* Callbacks of one run under SpecFair, which schedules the harts fairly.
FairCalls == 2
\* Largest num_clusters and num_cores of a configuration.
MaxClusters == 2
MaxCores == 2
\* Most harts (num_clusters * num_cores) of a configuration that is run.
MaxHarts == 2
\* Most harts of a configuration that is run with MidCalls callbacks on the
\* empty image.
MidHarts == 4
MidCalls == 1
\* Largest num_clusters and num_cores of a configuration: one with more than
\* MidHarts harts has them created, started and joined without a callback.
BigClusters == 3
BigCores == 4

(* ------------------------- program constants -------------------------- *)

\* The magic MMIO addresses of binary_load / binary_store.
TCDM_START_ADDR == 1073741824
TCDM_END_ADDR == 1073741832
NR_CORES_ADDR == 1073741840
SCRATCH_REG_ADDR == 1073741856
CLUSTER_BASE_HARTID_ADDR == 1073741888
\* The values binary_load returns for tcdm_start and tcdm_end.
TCDM_START == 0
TCDM_END == 131072
\* execute_inner: addresses below this bound are copied into the TCDM.
TCDM_LIMIT == 131072
\* The CSR numbers of binary_csr_read / binary_csr_write.
CSR_SSR == 1984
CSR_MHARTID == 3860
\* elf::types::SHF_ALLOC, the flag bit translate_elf tests.
SHF_ALLOC == 2

VARIABLES
    base_hartid,    \* Engine.base_hartid
    num_cores,      \* Engine.num_cores
    num_clusters,   \* Engine.num_clusters
    image,          \* the ELF image the caller translates
    budget,         \* how many callbacks the guest program of this run makes
    exit_code,      \* Engine.exit_code
    had_error,      \* Engine.had_error
    memory,         \* Engine.memory: the map, a function on its keys
    lock,           \* the Mutex of Engine.memory: 0 free, else the holding hart
    engine_pc,      \* where the engine's caller is
    result,         \* what execute returned
    tcdms,          \* execute_inner's tcdms, one sparse buffer per cluster
    cpus,           \* execute_inner's cpus
    hart_pc,        \* each hart thread's position
    req,            \* the address and value of a hart's pending load or store
    calls,          \* callbacks invoked so far in this run
    last,           \* history: the callback that returned last
    stored,         \* history: per address stored to, the last value stored
    aborted,        \* history: some abort callback was invoked
    csr_written,    \* history: per hart, the last value written to CSR 0x7C0
    fresh,          \* history: per hart, its own store that a load would follow
    preloaded,      \* history: the memory map when execute was called
    jit_failed,     \* history: JIT creation reported an error
    exit_writer     \* history: the hart whose store to the scratch register was the last, 0 if none

config == <<base_hartid, num_cores, num_clusters, image, budget>>
engine == <<exit_code, had_error, memory, lock>>
history == <<last, stored, aborted, csr_written, fresh, preloaded, jit_failed,
            exit_writer>>
vars == <<config, engine, engine_pc, result, tcdms, cpus, hart_pc, req, calls,
          history>>

(* ------------------------------ inputs -------------------------------- *)

Values == 0..MaxVal
Sizes == {0, 2}

MMIO == {TCDM_START_ADDR, TCDM_END_ADDR, NR_CORES_ADDR, SCRATCH_REG_ADDR,
         CLUSTER_BASE_HARTID_ADDR}
ReadOnlyMMIO == MMIO \ {SCRATCH_REG_ADDR}

\* Addresses the guest loads from and stores to: the magic ones, two words
\* of the TCDM range and a misaligned address.
PlainAddrs == {4096, 4100, 4101}
Addrs == MMIO \cup PlainAddrs

Csrs == {CSR_SSR, CSR_MHARTID, 768}

\* ELF images: sequences of sections [addr, flags, data], data in bytes.
Section(a, f, d) == [addr |-> a, flags |-> f, data |-> d]

\* no section
ElfEmpty == <<>>
\* one loadable section of two words
ElfText == << Section(4096, 2, <<1, 0, 0, 0, 2, 0, 0, 0>>) >>
\* a section that is not loaded, and a loadable one of 6 bytes
ElfNoAlloc == << Section(4096, 1, <<2, 0, 0, 0>>),
                 Section(4100, 6, <<1, 1, 0, 0, 2, 0>>) >>
\* two overlapping loadable sections, the second misaligned
ElfOverlap == << Section(4100, 2, <<1, 0, 0, 0>>),
                 Section(4101, 2, <<2, 0, 0, 0>>) >>
\* a section across the end of the TCDM range
ElfEdge == << Section(131068, 3, <<1, 0, 0, 0, 2, 0, 0, 0>>) >>
\* a word at each of the magic addresses, and one at a plain address
ElfMagic ==
    << Section(TCDM_START_ADDR, 2, <<1, 0, 0, 0>>),
       Section(TCDM_END_ADDR, 2, <<2, 0, 0, 0>>),
       Section(NR_CORES_ADDR, 2, <<1, 0, 0, 0>>),
       Section(SCRATCH_REG_ADDR, 2, <<2, 0, 0, 0>>),
       Section(CLUSTER_BASE_HARTID_ADDR, 2, <<1, 0, 0, 0>>),
       Section(4096, 2, <<1, 0, 0, 0>>) >>

Elfs == {ElfEmpty, ElfText, ElfNoAlloc, ElfOverlap, ElfEdge, ElfMagic}

Configs ==
    { c \in [base : {0, 8}, cores : 0..MaxCores, clusters : 0..MaxClusters] :
        c.cores * c.clusters <= MaxHarts }

MidConfigs ==
    { c \in [base : {0, 8}, cores : 0..BigCores, clusters : 0..BigClusters] :
        c.cores * c.clusters > MaxHarts /\ c.cores * c.clusters <= MidHarts }

BigConfigs ==
    { c \in [base : {0, 8}, cores : 0..BigCores, clusters : 0..BigClusters] :
        c.cores * c.clusters > MidHarts }

(* ----------------------------- helpers -------------------------------- *)

\* a map whose insert keeps the value of a key that is present
insert_if_absent(mem, addr, value) ==
    [k \in DOMAIN mem \cup {addr} |-> IF k \in DOMAIN mem THEN mem[k] ELSE value]

\* HashMap::insert
insert(mem, addr, value) ==
    [k \in DOMAIN mem \cup {addr} |-> IF k = addr THEN value ELSE mem[k]]

\* a lookup that reads an address of the TCDM range from the TCDM buffer
get_from_tcdm(mem, addr) ==
    IF addr < 131072 /\ Len(tcdms) > 0
    THEN IF addr \div 4 \in DOMAIN tcdms[1] THEN tcdms[1][addr \div 4] ELSE 0
    ELSE IF addr \in DOMAIN mem THEN mem[addr] ELSE 0

\* a lookup that rounds the address down to its word
get_or_zero_aligned(mem, addr) ==
    IF addr - (addr % 4) \in DOMAIN mem THEN mem[addr - (addr % 4)] ELSE 0

\* a lookup whose miss reads the word the address lies in
get_or_word(mem, addr) ==
    IF addr \in DOMAIN mem THEN mem[addr]
    ELSE IF addr - (addr % 4) \in DOMAIN mem THEN mem[addr - (addr % 4)]
    ELSE 0

\* HashMap::get(..).copied().unwrap_or(0)
get_or_zero(mem, addr) == IF addr \in DOMAIN mem THEN mem[addr] ELSE 0

\* slice::chunks(4): the number of chunks of a slice of n bytes
num_chunks(n) == (n + 3) \div 4

\* slice::chunks(4): chunk k (from 0) of data
chunk(data, k) ==
    SubSeq(data, 4 * k + 1, IF 4 * k + 4 <= Len(data) THEN 4 * k + 4 ELSE Len(data))

\* read_u32::<LittleEndian>().unwrap_or(0): a chunk shorter than four bytes
\* is an error of the read, which unwrap_or turns into 0
read_u32_le(c) ==
    IF Len(c) < 4 THEN 0
    ELSE c[1] + 256 * c[2] + 65536 * c[3] + 16777216 * c[4]

\* section.shdr.flags.0 & SHF_ALLOC.0
flags_and_alloc(flags) == ((flags \div SHF_ALLOC) % 2) * SHF_ALLOC

\* mem.extend(chunks.enumerate().map(..)) for the chunks from k on
RECURSIVE extend_section(_, _, _)
extend_section(mem, section, k) ==
    IF k >= num_chunks(Len(section.data)) THEN mem
    ELSE extend_section(
            insert(mem, section.addr + k * 4, read_u32_le(chunk(section.data, k))),
            section, k + 1)

\* the preload loop of translate_elf over the sections from i on
RECURSIVE preload(_, _, _)
preload(mem, sections, i) ==
    IF i > Len(sections) THEN mem
    ELSE IF flags_and_alloc(sections[i].flags) = 0
         THEN preload(mem, sections, i + 1)
         ELSE preload(extend_section(mem, sections[i], 0), sections, i + 1)


\* Every order in which HashMap::iter may yield the keys of S.
RECURSIVE Orders(_)
Orders(S) ==
    IF S = {} THEN {<<>>}
    ELSE UNION {{<<x>> \o p : p \in Orders(S \ {x})} : x \in S}

\* vec![0u32; 128 * 1024 / 4], kept sparse: a word never assigned is 0
tcdm_zero == [i \in {} |-> 0]

\* tcdm[i] of a sparse buffer
tcdm_word(tcdm, i) == IF i \in DOMAIN tcdm THEN tcdm[i] ELSE 0

\* tcdm[i] = value
tcdm_set(tcdm, i, value) ==
    [k \in DOMAIN tcdm \cup {i} |-> IF k = i THEN value ELSE tcdm[k]]

\* the loop body of the TCDM copy: if addr < 0x020000 { tcdm[addr / 4] = value }
tcdm_copy_word(tcdm, addr, value) ==
    IF addr < TCDM_LIMIT THEN tcdm_set(tcdm, addr \div 4, value) ELSE tcdm

\* for (&addr, &value) in memory.iter() { .. }, the keys coming in `order`
RECURSIVE tcdm_fill(_, _, _, _)
tcdm_fill(tcdm, mem, order, i) ==
    IF i > Len(order) THEN tcdm
    ELSE tcdm_fill(tcdm_copy_word(tcdm, order[i], mem[order[i]]), mem, order, i + 1)

\* (0..num_clusters).map(|_| tcdm.clone()).collect()
make_tcdms(mem, order, nclusters) ==
    [j \in 1..nclusters |-> tcdm_fill(tcdm_zero, mem, order, 1)]

\* CpuState::default(), of which the engine's callbacks touch ssr_enable only
CpuStateDefault == [ssr_enable |-> 0]

\* Cpus numbered by cluster and core without the row stride
cpu_new_no_stride(base, ncores, j, i) ==
    [ state |-> CpuStateDefault,
      tcdm_ptr |-> j,
      hartid |-> (base + j) + i,
      num_cores |-> ncores,
      cluster_base_hartid |-> base + j ]

\* Cpu::new(self, &tcdms[j][0], base_hartid + i, self.num_cores, base_hartid)
\* with base_hartid = self.base_hartid + j * self.num_cores
cpu_new(base, ncores, j, i) ==
    [ state |-> CpuStateDefault,
      tcdm_ptr |-> j,
      hartid |-> (base + j * ncores) + i,
      num_cores |-> ncores,
      cluster_base_hartid |-> base + j * ncores ]

\* the cpus vector: clusters j in order, and within each its cores i in order
make_cpus(base, ncores, nclusters) ==
    [k \in 1..(nclusters * ncores) |->
        cpu_new(base, ncores, (k - 1) \div ncores, (k - 1) % ncores)]

Harts == DOMAIN cpus

(* ----------------------------- results -------------------------------- *)

\* what execute gave: Ok(value), Err(error), a panic, or nothing yet
Ok(v) == [kind |-> "ok", value |-> v, error |-> ""]
Err(what) == [kind |-> "err", value |-> 0, error |-> what]
Panic == [kind |-> "panic", value |-> 0, error |-> "index out of bounds"]
NoResult == [kind |-> "none", value |-> 0, error |-> ""]

NoLast == [hart |-> 0, op |-> "none", addr |-> 0, value |-> 0, ret |-> 0,
           expect |-> -1, untouched |-> FALSE, stored_before |-> FALSE,
           locked |-> 0]
NoStore == [addr |-> -1, value |-> -1]

(* ------------------------------- Init --------------------------------- *)

\* Engine::new, with the public sizing fields set by the caller, who holds
\* an ELF image of `elfs`; the guest makes at most `limit` callbacks
InitWith(cfgs, elfs, limit) ==
    /\ \E c \in cfgs :
        /\ base_hartid = c.base
        /\ num_cores = c.cores
        /\ num_clusters = c.clusters
    /\ image \in elfs
    /\ budget = limit
    /\ exit_code = 0
    /\ had_error = FALSE
    /\ memory = [a \in {} |-> 0]
    /\ lock = 0
    /\ engine_pc = "new"
    /\ result = NoResult
    /\ tcdms = <<>>
    /\ cpus = <<>>
    /\ hart_pc = <<>>
    /\ req = <<>>
    /\ calls = 0
    /\ last = NoLast
    /\ stored = [a \in {} |-> 0]
    /\ aborted = FALSE
    /\ csr_written = <<>>
    /\ fresh = <<>>
    /\ preloaded = [a \in {} |-> 0]
    /\ jit_failed = FALSE
    /\ exit_writer = 0

\* The harts of one cluster, hart ids from 0, on the image that preloads
\* the magic addresses.
DeepConfigs == {c \in Configs : c.base = 0 /\ c.clusters = 1 /\ c.cores = MaxHarts}
DeepElfs == {ElfMagic}

Init == InitWith(DeepConfigs, DeepElfs, MaxCalls)
InitWide ==
    \/ InitWith(Configs, Elfs, WideCalls)
    \/ InitWith(MidConfigs, {ElfEmpty}, MidCalls)
    \/ InitWith(BigConfigs, {ElfEmpty}, 0)

(* ------------------------- Engine operations -------------------------- *)

\* translate_elf: the translator accepts the image and the ALLOC sections
\* are copied into memory
translate_elf ==
    /\ engine_pc = "new"
    /\ memory' = preload(memory, image, 1)
    /\ engine_pc' = "translated"
    /\ UNCHANGED <<config, exit_code, had_error, lock, result, tcdms, cpus,
                   hart_pc, req, calls, history>>

\* translate_elf: tran.translate()? fails, nothing is preloaded
translate_elf_error ==
    /\ engine_pc = "new"
    /\ engine_pc' = "translate_failed"
    /\ UNCHANGED <<config, engine, result, tcdms, cpus, hart_pc, req, calls,
                   history>>

\* an error message that is not looked at: execute_inner goes on
bail_skipped == "translated"

\* bail!(..) returns the error from execute_inner
bail == "returned"

\* execute_inner: LLVMCreateJITCompilerForModule reports an error, bail!
execute_jit_error ==
    /\ engine_pc = "translated"
    /\ engine_pc' = bail
    /\ result' = Err("jit")
    /\ jit_failed' = TRUE
    /\ preloaded' = memory
    /\ UNCHANGED <<config, engine, tcdms, cpus, hart_pc, req, calls, last,
                   stored, aborted, csr_written, fresh, exit_writer>>

\* execute_inner up to the spawn of the hart threads. `order` is the order
\* HashMap::iter yields the keys in; `trace_on` is whether the log level
\* evaluates the arguments of trace!, which index cpus[0]
execute_start(order, trace_on) ==
    /\ engine_pc = "translated"
    /\ tcdms' = make_tcdms(memory, order, num_clusters)
    /\ cpus' = make_cpus(base_hartid, num_cores, num_clusters)
    /\ preloaded' = memory
    /\ IF trace_on /\ num_clusters * num_cores = 0
       THEN /\ engine_pc' = "panicked"
            /\ result' = Panic
            /\ hart_pc' = <<>>
       ELSE /\ engine_pc' = "running"
            /\ result' = NoResult
            /\ hart_pc' = [h \in 1..(num_clusters * num_cores) |-> "run"]
    /\ req' = [h \in DOMAIN hart_pc' |-> NoStore]
    /\ csr_written' = [h \in DOMAIN hart_pc' |-> -1]
    /\ fresh' = [h \in DOMAIN hart_pc' |-> NoStore]
    /\ UNCHANGED <<config, engine, calls, last, stored, aborted, jit_failed,
                   exit_writer>>

\* a result that returns exit_code as it is
execute_result_no_shift(err, code) ==
    IF err THEN Err("execution") ELSE Ok(code)

\* the tail of execute_inner: Err if had_error, else Ok(exit_code >> 1)
execute_result(err, code) ==
    IF err THEN Err("execution") ELSE Ok(code \div 2)

\* a scope that does not wait for the threads it spawned
joined_at_once(pcs) == TRUE

\* crossbeam_utils::thread::scope returns once every spawned thread has ended
joined(pcs) == \A h \in DOMAIN pcs : pcs[h] = "done"

\* execute_inner after the scope has joined every hart thread
execute_finish(trace_on) ==
    /\ engine_pc = "running"
    /\ joined(hart_pc)
    /\ IF trace_on /\ Len(cpus) = 0
       THEN /\ engine_pc' = "panicked"
            /\ result' = Panic
       ELSE /\ engine_pc' = "returned"
            /\ result' = execute_result(had_error, exit_code)
    /\ UNCHANGED <<config, engine, tcdms, cpus, hart_pc, req, calls, history>>

(* --------------------------- Cpu callbacks ---------------------------- *)

\* A running hart may invoke a callback.
may_call(h) ==
    /\ engine_pc = "running"
    /\ h \in Harts
    /\ hart_pc[h] = "run"
    /\ calls < budget

\* a decoder of binary_load that reads the scratch register from the
\* memory map
load_arm_scratch_memory(addr) ==
    CASE addr = TCDM_START_ADDR -> "tcdm_start"
      [] addr = TCDM_END_ADDR -> "tcdm_end"
      [] addr = NR_CORES_ADDR -> "nr_cores"
      [] addr = CLUSTER_BASE_HARTID_ADDR -> "cluster_base_hartid"
      [] OTHER -> "memory"

\* a decoder of binary_load that sends every address to the memory map
load_arm_all_memory(addr) == "memory"

\* a decoder of binary_load without the nr_cores and cluster_base_hartid arms
load_arm_fewer(addr) ==
    CASE addr = TCDM_START_ADDR -> "tcdm_start"
      [] addr = TCDM_END_ADDR -> "tcdm_end"
      [] addr = SCRATCH_REG_ADDR -> "scratch_reg"
      [] OTHER -> "memory"

\* the arm `match addr` selects in binary_load
load_arm(addr) ==
    CASE addr = TCDM_START_ADDR -> "tcdm_start"
      [] addr = TCDM_END_ADDR -> "tcdm_end"
      [] addr = NR_CORES_ADDR -> "nr_cores"
      [] addr = SCRATCH_REG_ADDR -> "scratch_reg"
      [] addr = CLUSTER_BASE_HARTID_ADDR -> "cluster_base_hartid"
      [] OTHER -> "memory"

\* the value of the arms of binary_load that do not read the memory map
load_mmio(arm, cpu, code) ==
    CASE arm = "tcdm_start" -> TCDM_START
      [] arm = "tcdm_end" -> TCDM_END
      [] arm = "nr_cores" -> cpu.num_cores
      [] arm = "scratch_reg" -> code
      [] arm = "cluster_base_hartid" -> cpu.cluster_base_hartid

\* a decoder of binary_store that lets tcdm_end fall through to memory and
\* takes cluster_base_hartid for the scratch register
store_arm_writable(addr) ==
    CASE addr = TCDM_START_ADDR -> "tcdm_start"
      [] addr = NR_CORES_ADDR -> "nr_cores"
      [] addr = SCRATCH_REG_ADDR -> "scratch_reg"
      [] addr = CLUSTER_BASE_HARTID_ADDR -> "scratch_reg"
      [] OTHER -> "memory"

\* the arm `match addr` selects in binary_store
store_arm(addr) ==
    CASE addr = TCDM_START_ADDR -> "tcdm_start"
      [] addr = TCDM_END_ADDR -> "tcdm_end"
      [] addr = NR_CORES_ADDR -> "nr_cores"
      [] addr = SCRATCH_REG_ADDR -> "scratch_reg"
      [] addr = CLUSTER_BASE_HARTID_ADDR -> "cluster_base_hartid"
      [] OTHER -> "memory"

\* exit_code after the arm of binary_store: only scratch_reg stores to it
store_exit_code(arm, value, code) ==
    IF arm = "scratch_reg" THEN value ELSE code

\* history: what a returning load records
loaded(h, addr, ret, expect) ==
    [hart |-> h, op |-> "load", addr |-> addr, value |-> 0, ret |-> ret,
     expect |-> expect,
     untouched |-> addr \notin DOMAIN preloaded /\ addr \notin DOMAIN stored,
     stored_before |-> addr \in DOMAIN stored,
     locked |-> lock]

\* history: what a returning callback other than a load records
returned(h, op, addr, value, ret, expect) ==
    [hart |-> h, op |-> op, addr |-> addr, value |-> value, ret |-> ret,
     expect |-> expect, untouched |-> FALSE, stored_before |-> FALSE,
     locked |-> lock]

\* binary_load up to its return (a magic address) or up to memory.lock()
binary_load(h, addr, size) ==
    /\ may_call(h)
    /\ calls' = calls + 1
    /\ IF load_arm(addr) = "memory"
       THEN /\ hart_pc' = [hart_pc EXCEPT ![h] = "load_wait"]
            /\ req' = [req EXCEPT ![h] = [addr |-> addr, value |-> 0]]
            /\ fresh' = [fresh EXCEPT
                           ![h] = IF fresh[h].addr = addr THEN @ ELSE NoStore]
            /\ UNCHANGED last
       ELSE /\ last' = loaded(h, addr,
                              load_mmio(load_arm(addr), cpus[h], exit_code), -1)
            /\ fresh' = [fresh EXCEPT ![h] = NoStore]
            /\ UNCHANGED <<hart_pc, req>>
    /\ UNCHANGED <<config, engine, engine_pc, result, tcdms, cpus, stored,
                   aborted, csr_written, preloaded, jit_failed,
                   exit_writer>>

\* binary_store up to its return (a magic address) or up to memory.lock()
binary_store(h, addr, value, size) ==
    /\ may_call(h)
    /\ calls' = calls + 1
    /\ fresh' = [fresh EXCEPT ![h] = NoStore]
    /\ IF store_arm(addr) = "memory"
       THEN /\ hart_pc' = [hart_pc EXCEPT ![h] = "store_wait"]
            /\ req' = [req EXCEPT ![h] = [addr |-> addr, value |-> value]]
            /\ UNCHANGED <<exit_code, stored, last>>
       ELSE /\ exit_code' = store_exit_code(store_arm(addr), value, exit_code)
            /\ stored' = [a \in DOMAIN stored \cup {addr} |->
                            IF a = addr THEN value ELSE stored[a]]
            /\ last' = returned(h, "store", addr, value, 0, -1)
            /\ UNCHANGED <<hart_pc, req>>
    /\ exit_writer' = IF store_arm(addr) = "scratch_reg" THEN h ELSE exit_writer
    /\ UNCHANGED <<config, had_error, memory, lock, engine_pc, result, tcdms,
                   cpus, aborted, csr_written, preloaded, jit_failed>>

\* a mutex that lets a thread in whoever holds it
mutex_always_free(l) == TRUE

\* Mutex::lock returns when no thread holds the mutex
mutex_free(l) == l = 0

\* Mutex::lock of Engine.memory by a hart waiting in a load or a store
memory_lock(h) ==
    /\ engine_pc = "running"
    /\ h \in Harts
    /\ hart_pc[h] \in {"load_wait", "store_wait"}
    /\ mutex_free(lock)
    /\ lock' = h
    /\ hart_pc' = [hart_pc EXCEPT
                     ![h] = IF @ = "load_wait" THEN "load_cs" ELSE "store_cs"]
    /\ UNCHANGED <<config, exit_code, had_error, memory, engine_pc, result,
                   tcdms, cpus, req, calls, history>>

\* the default arm of binary_load under the lock: get, unlock, return
binary_load_memory(h) ==
    /\ engine_pc = "running"
    /\ h \in Harts
    /\ hart_pc[h] = "load_cs"
    /\ lock = h
    /\ last' = loaded(h, req[h].addr, get_or_zero(memory, req[h].addr),
                      IF fresh[h].addr = req[h].addr THEN fresh[h].value ELSE -1)
    /\ lock' = 0
    /\ hart_pc' = [hart_pc EXCEPT ![h] = "run"]
    /\ req' = [req EXCEPT ![h] = NoStore]
    /\ fresh' = [fresh EXCEPT ![h] = NoStore]
    /\ UNCHANGED <<config, exit_code, had_error, memory, engine_pc, result,
                   tcdms, cpus, calls, stored, aborted, csr_written,
                   preloaded, jit_failed,
                   exit_writer>>

\* the default arm of binary_store under the lock: insert, unlock, return
binary_store_memory(h) ==
    /\ engine_pc = "running"
    /\ h \in Harts
    /\ hart_pc[h] = "store_cs"
    /\ lock = h
    /\ memory' = insert(memory, req[h].addr, req[h].value)
    /\ lock' = 0
    /\ hart_pc' = [hart_pc EXCEPT ![h] = "run"]
    /\ req' = [req EXCEPT ![h] = NoStore]
    /\ stored' = [a \in DOMAIN stored \cup {req[h].addr} |->
                    IF a = req[h].addr THEN req[h].value ELSE stored[a]]
    /\ last' = returned(h, "store", req[h].addr, req[h].value, 0, -1)
    /\ fresh' = [g \in DOMAIN fresh |->
                    IF g = h THEN req[h]
                    ELSE IF fresh[g].addr = req[h].addr THEN NoStore
                    ELSE fresh[g]]
    /\ UNCHANGED <<config, exit_code, had_error, engine_pc, result, tcdms,
                   cpus, calls, aborted, csr_written, preloaded, jit_failed,
                   exit_writer>>

\* the value `match csr` yields in binary_csr_read
csr_read_value(cpu, csr) ==
    CASE csr = CSR_SSR -> cpu.state.ssr_enable
      [] csr = CSR_MHARTID -> cpu.hartid
      [] OTHER -> 0

\* a csr write that takes every CSR for ssr_enable
csr_write_cpu_any(cpu, csr, value) ==
    [cpu EXCEPT !.state.ssr_enable = value]

\* the Cpu after `match csr` of binary_csr_write
csr_write_cpu(cpu, csr, value) ==
    IF csr = CSR_SSR
    THEN [cpu EXCEPT !.state.ssr_enable = value]
    ELSE cpu

binary_csr_read(h, csr) ==
    /\ may_call(h)
    /\ calls' = calls + 1
    /\ last' = returned(h, "csr_read", csr, 0, csr_read_value(cpus[h], csr),
                        IF csr = CSR_SSR THEN csr_written[h] ELSE -1)
    /\ fresh' = [fresh EXCEPT ![h] = NoStore]
    /\ UNCHANGED <<config, engine, engine_pc, result, tcdms, cpus, hart_pc,
                   req, stored, aborted, csr_written, preloaded, jit_failed,
                   exit_writer>>

binary_csr_write(h, csr, value) ==
    /\ may_call(h)
    /\ calls' = calls + 1
    /\ cpus' = [cpus EXCEPT ![h] = csr_write_cpu(@, csr, value)]
    /\ csr_written' = [csr_written EXCEPT
                         ![h] = IF csr = CSR_SSR THEN value ELSE @]
    /\ last' = returned(h, "csr_write", csr, value, 0, -1)
    /\ fresh' = [fresh EXCEPT ![h] = NoStore]
    /\ UNCHANGED <<config, engine, engine_pc, result, tcdms, hart_pc, req,
                   stored, aborted, preloaded, jit_failed,
                   exit_writer>>

\* an abort that only logs
abort_had_error_kept(err) == err

\* self.engine.had_error.store(true, Ordering::SeqCst)
abort_had_error(err) == TRUE

\* an abort that ends the calling hart's thread
abort_pc_done(pc) == "done"

\* the position of the calling hart after an abort callback: the callback
\* returns to the translated code, which runs on
abort_pc(pc) == pc

\* what the three abort callbacks share: log, then set had_error
abort(h, kind) ==
    /\ may_call(h)
    /\ calls' = calls + 1
    /\ had_error' = abort_had_error(had_error)
    /\ hart_pc' = [hart_pc EXCEPT ![h] = abort_pc(@)]
    /\ aborted' = TRUE
    /\ last' = returned(h, kind, 0, 0, 0, -1)
    /\ fresh' = [fresh EXCEPT ![h] = NoStore]
    /\ UNCHANGED <<config, exit_code, memory, lock, engine_pc, result, tcdms,
                   cpus, req, stored, csr_written, preloaded, jit_failed,
                   exit_writer>>

\* binary_abort_escape(addr): the address is only logged
binary_abort_escape(h) == abort(h, "abort_escape")

\* binary_abort_illegal_inst(addr, inst_raw): the arguments are only logged
binary_abort_illegal_inst(h) == abort(h, "abort_illegal_inst")

\* binary_abort_illegal_branch(addr, target): the arguments are only logged
binary_abort_illegal_branch(h) == abort(h, "abort_illegal_branch")

\* binary_trace: formats one line and prints it
binary_trace(h) ==
    /\ may_call(h)
    /\ calls' = calls + 1
    /\ last' = returned(h, "trace", 0, 0, 0, -1)
    /\ fresh' = [fresh EXCEPT ![h] = NoStore]
    /\ UNCHANGED <<config, engine, engine_pc, result, tcdms, cpus, hart_pc,
                   req, stored, aborted, csr_written, preloaded, jit_failed,
                   exit_writer>>

\* exec(cpu) returns: the hart's thread ends
hart_return(h) ==
    /\ engine_pc = "running"
    /\ h \in Harts
    /\ hart_pc[h] = "run"
    /\ hart_pc' = [hart_pc EXCEPT ![h] = "done"]
    /\ UNCHANGED <<config, engine, engine_pc, result, tcdms, cpus, req, calls,
                   history>>

(* ------------------------------- Next --------------------------------- *)

Next ==
    \/ translate_elf
    \/ translate_elf_error
    \/ execute_jit_error
    \/ /\ engine_pc = "translated"
       /\ \E order \in Orders(DOMAIN memory), trace_on \in BOOLEAN :
             execute_start(order, trace_on)
    \/ \E trace_on \in BOOLEAN : execute_finish(trace_on)
    \/ \E h \in Harts, addr \in Addrs, size \in Sizes : binary_load(h, addr, size)
    \/ \E h \in Harts, addr \in Addrs, value \in Values, size \in Sizes :
          binary_store(h, addr, value, size)
    \/ \E h \in Harts : memory_lock(h)
    \/ \E h \in Harts : binary_load_memory(h)
    \/ \E h \in Harts : binary_store_memory(h)
    \/ \E h \in Harts, csr \in Csrs : binary_csr_read(h, csr)
    \/ \E h \in Harts, csr \in Csrs, value \in Values : binary_csr_write(h, csr, value)
    \/ \E h \in Harts : binary_abort_escape(h)
    \/ \E h \in Harts : binary_abort_illegal_inst(h)
    \/ \E h \in Harts : binary_abort_illegal_branch(h)
    \/ \E h \in Harts : binary_trace(h)
    \/ \E h \in Harts : hart_return(h)

Spec == Init /\ [][Next]_vars

SpecWide == InitWide /\ [][Next]_vars

\* The harts of one cluster on the empty image, each guest program being
\* finite: a hart thread that can return does, the Mutex is handed to a
\* waiting thread, a thread in the critical section leaves it, and
\* execute_inner goes on once the scope has joined.
InitFair == InitWith(DeepConfigs, {ElfEmpty}, FairCalls)

Fairness ==
    /\ \A h \in 1..MaxHarts :
          /\ WF_vars(hart_return(h))
          /\ WF_vars(memory_lock(h))
          /\ WF_vars(binary_load_memory(h))
          /\ WF_vars(binary_store_memory(h))
    /\ WF_vars(\E trace_on \in BOOLEAN : execute_finish(trace_on))

SpecFair == InitFair /\ [][Next]_vars /\ Fairness

(* ------------------------------ claims -------------------------------- *)

\* execute has returned from a run whose JIT creation succeeded
Returned == engine_pc = "returned" /\ ~jit_failed

\* the last value stored to the scratch register, 0 if there was no store
LastExitStore ==
    IF SCRATCH_REG_ADDR \in DOMAIN stored THEN stored[SCRATCH_REG_ADDR] ELSE 0

\* a binary_store to address a returns in this step: at its call (a magic
\* address) or when it leaves the critical section
StoreReturns ==
    /\ last'.op = "store"
    /\ \/ calls' = calls + 1
       \/ lock # 0 /\ lock' = 0

\* a binary_load returns in this step
LoadReturns ==
    /\ last'.op = "load"
    /\ \/ calls' = calls + 1 /\ hart_pc' = hart_pc
       \/ lock # 0 /\ lock' = 0

\* C1: on a fresh engine whose JIT creation succeeds, execute returns Err
\* exactly when some hart invoked an abort callback during the run, whether
\* or not exit_code was written; otherwise it returns Ok(exit_code >> 1).
C1_ErrIffAborted ==
    Returned =>
        /\ (result.kind = "err") <=> aborted
        /\ ~aborted => result = Ok(exit_code \div 2)

\* an abort and a store of 2 to the scratch register, and execute returned
C1_Witness ==
    /\ Returned
    /\ aborted
    /\ result.kind = "err"
    /\ LastExitStore = 2
    /\ exit_code = 2

\* C2: without an abort, execute returns the last value stored to
\* 0x4000_0020 by any hart, 0 if none, shifted right by one; a store of 2
\* gives Ok(1).
C2_ExitCodeIsLastStore ==
    (Returned /\ ~aborted) => result = Ok(LastExitStore \div 2)

\* two stores to the scratch register, the last one of 2: execute gave Ok(1)
C2_Witness ==
    /\ Returned
    /\ ~aborted
    /\ LastExitStore = 2
    /\ result = Ok(1)
    /\ last.op = "store" /\ last.addr # SCRATCH_REG_ADDR
    /\ calls = 3

\* C3: a load from 0x4000_0000, 0x4000_0008, 0x4000_0010 and 0x4000_0040
\* returns 0, 0x0002_0000, num_cores and the calling hart's
\* cluster_base_hartid, whatever was stored before and whatever the image
\* preloaded at those addresses.
C3_MagicLoadsAreConfiguration ==
    last.op = "load" =>
        /\ last.addr = TCDM_START_ADDR => last.ret = 0
        /\ last.addr = TCDM_END_ADDR => last.ret = 131072
        /\ last.addr = NR_CORES_ADDR => last.ret = num_cores
        /\ last.addr = CLUSTER_BASE_HARTID_ADDR =>
              last.ret = cpus[last.hart].cluster_base_hartid

\* a load of cluster_base_hartid on the hart of the second cluster, after a
\* store of 2 to that address, which the image had preloaded with 1
C3_Witness ==
    /\ last.op = "load"
    /\ last.stored_before
    /\ last.addr \in DOMAIN preloaded
    /\ last.addr = CLUSTER_BASE_HARTID_ADDR
    /\ last.hart = 2
    /\ last.ret = 9
    /\ stored[last.addr] = 2
    /\ preloaded[last.addr] = 1

\* C4: a store to one of the read-only magic addresses is discarded: it
\* leaves the memory map, exit_code, had_error and every CpuState as they
\* were and raises no abort.
C4_ReadOnlyStoreDiscarded ==
    [][(StoreReturns /\ last'.addr \in ReadOnlyMMIO) =>
          /\ memory' = memory
          /\ exit_code' = exit_code
          /\ had_error' = had_error
          /\ aborted' = aborted
          /\ cpus' = cpus]_vars

\* stores of nonzero values to three of the read-only addresses
C4_Witness ==
    /\ last.op = "store"
    /\ last.addr = CLUSTER_BASE_HARTID_ADDR
    /\ last.value = 2
    /\ Cardinality(DOMAIN stored \cap ReadOnlyMMIO) = 3
    /\ exit_code = 0
    /\ ~had_error

\* C5: a store of v to an address that is not magic, directly followed on
\* the same hart by a load of that address, with no store to it by another
\* hart in between, returns v.
C5_StoreThenLoad ==
    (last.op = "load" /\ last.expect # -1) => last.ret = last.expect

\* the hart's load of the misaligned address returned the 2 it had stored,
\* the other hart having stored elsewhere in between
C5_Witness ==
    /\ last.op = "load"
    /\ last.addr = 4101
    /\ last.expect = 2
    /\ last.ret = 2
    /\ \E a \in DOMAIN stored : a # 4101

\* C6: a load from an address that is not magic and was never stored to
\* nor preloaded returns 0, and the load adds no key to the memory map and
\* changes no other state of the engine.
C6_UntouchedLoadsZero ==
    /\ []((last.op = "load" /\ last.addr \notin MMIO /\ last.untouched) =>
             last.ret = 0)
    /\ [][(LoadReturns /\ last'.addr \notin MMIO /\ last'.untouched) =>
             /\ memory' = memory
             /\ exit_code' = exit_code
             /\ had_error' = had_error
             /\ cpus' = cpus
             /\ tcdms' = tcdms]_vars

\* a load of the untouched 0x1005 returned 0 while its word 0x1004 holds 2,
\* and 0x1005 is still no key
C6_Witness ==
    /\ last.op = "load"
    /\ last.addr = 4101
    /\ last.untouched
    /\ last.ret = 0
    /\ 4100 \in DOMAIN memory /\ memory[4100] = 2
    /\ 4101 \notin DOMAIN memory
    /\ lock = 0

\* C7: CSR 0x7C0 is per hart: a read on hart h returns what h wrote last,
\* whatever the other harts did in between; a write changes no other hart's
\* Cpu; a read of a CSR other than 0x7C0 and 0xF14 returns 0 and a write of
\* a CSR other than 0x7C0 changes nothing.
C7_SsrEnablePerHart ==
    /\ [](last.op = "csr_read" =>
            /\ (last.addr = CSR_SSR /\ last.expect # -1) => last.ret = last.expect
            /\ last.addr \notin {CSR_SSR, CSR_MHARTID} => last.ret = 0)
    /\ [][(last'.op = "csr_write" /\ calls' = calls + 1) =>
            /\ \A g \in DOMAIN cpus : g # last'.hart => cpus'[g] = cpus[g]
            /\ last'.addr # CSR_SSR => cpus' = cpus
            /\ memory' = memory
            /\ exit_code' = exit_code
            /\ had_error' = had_error]_vars

\* a hart read back the 2 it wrote after the other hart had written 1
C7_Witness ==
    /\ last.op = "csr_read"
    /\ last.addr = CSR_SSR
    /\ last.expect = 2
    /\ last.ret = 2
    /\ \E g \in DOMAIN csr_written : g # last.hart /\ csr_written[g] = 1

\* execute has created its Cpus
CpusCreated == engine_pc \in {"running", "panicked"} \/ Returned

\* C8: execute creates num_clusters * num_cores Cpus; the Cpu of cluster j,
\* core i has hartid base_hartid + j*num_cores + i and cluster_base_hartid
\* base_hartid + j*num_cores; the hartids are pairwise distinct and fill the
\* range from base_hartid; a read of CSR 0xF14 returns the hart's hartid;
\* with 3 clusters of 4 cores from 8, cluster 2 core 1 has 17 and 16.
C8_HartIds ==
    /\ CpusCreated =>
        /\ Len(cpus) = num_clusters * num_cores
        /\ \A j \in 0..(num_clusters - 1), i \in 0..(num_cores - 1) :
              /\ cpus[j * num_cores + i + 1].hartid
                    = base_hartid + j * num_cores + i
              /\ cpus[j * num_cores + i + 1].cluster_base_hartid
                    = base_hartid + j * num_cores
        /\ \A k, l \in DOMAIN cpus : k # l => cpus[k].hartid # cpus[l].hartid
        /\ {cpus[k].hartid : k \in DOMAIN cpus}
              = base_hartid..(base_hartid + num_clusters * num_cores - 1)
        /\ (num_clusters = 3 /\ num_cores = 4 /\ base_hartid = 8) =>
              /\ cpus[2 * 4 + 1 + 1].hartid = 17
              /\ cpus[2 * 4 + 1 + 1].cluster_base_hartid = 16
    /\ (last.op = "csr_read" /\ last.addr = CSR_MHARTID) =>
          last.ret = base_hartid + (last.hart - 1)

\* with 2 clusters of 2 cores from 8, the last Cpu (cluster 1, core 1) read
\* 11 from CSR 0xF14, and its cluster starts at 10
C8_Witness ==
    /\ num_clusters = 2 /\ num_cores = 2 /\ base_hartid = 8
    /\ last.op = "csr_read"
    /\ last.addr = CSR_MHARTID
    /\ last.hart = 4
    /\ last.ret = 11
    /\ cpus[4].cluster_base_hartid = 10

\* C9: stores of different harts are linearizable: after the join every
\* address that is not magic and was stored to holds the value of the store
\* that took the lock last, every other key is as preloaded and no key is
\* lost; if each hart stores its hartid to 0x1000 + 4*hartid, the map holds
\* that hartid there.
C9_StoresLinearizable ==
    Returned =>
        /\ \A a \in DOMAIN stored \ MMIO :
              a \in DOMAIN memory /\ memory[a] = stored[a]
        /\ \A a \in DOMAIN memory \ (DOMAIN stored \ MMIO) :
              a \in DOMAIN preloaded /\ memory[a] = preloaded[a]
        /\ DOMAIN preloaded \subseteq DOMAIN memory
        /\ (\A h \in Harts :
               /\ 4096 + 4 * cpus[h].hartid \in DOMAIN stored
               /\ stored[4096 + 4 * cpus[h].hartid] = cpus[h].hartid)
            => \A h \in Harts :
                  memory[4096 + 4 * cpus[h].hartid] = cpus[h].hartid

\* harts 0 and 1 stored their hartids to 0x1000 and 0x1004, the first over
\* the preloaded 1, and the map holds 0 and 1 there after the join
C9_Witness ==
    /\ Returned
    /\ calls = 2
    /\ DOMAIN stored = {4096, 4100}
    /\ stored[4096] = 0 /\ stored[4100] = 1
    /\ preloaded[4096] = 1
    /\ memory[4096] = 0 /\ memory[4100] = 1

\* the harts have just been started
HartsStarted ==
    /\ engine_pc = "running"
    /\ Harts # {}
    /\ calls = 0
    /\ \A h \in Harts : hart_pc[h] = "run"

\* C10: when the harts are started, every TCDM buffer holds
\* global_memory[a] at word a/4 for every key a below 0x0002_0000, every
\* other TCDM word is 0 and no word of an address from 0x0002_0000 on is in
\* a TCDM buffer, whatever the keys of the map, misaligned ones included.
C10_TcdmMirrorsLowMemory ==
    HartsStarted =>
        /\ Len(tcdms) = num_clusters
        /\ \A c \in DOMAIN tcdms :
              /\ \A a \in DOMAIN preloaded :
                    a < 131072 => tcdm_word(tcdms[c], a \div 4) = preloaded[a]
              /\ \A i \in DOMAIN tcdms[c] :
                    tcdms[c][i] # 0 =>
                       \E a \in DOMAIN preloaded : a < 131072 /\ a \div 4 = i

\* execute has ended, by a return or by a panic, on a configuration without
\* harts whose JIT creation succeeded
ZeroHartsEnded ==
    /\ num_clusters * num_cores = 0
    /\ engine_pc \in {"returned", "panicked"}
    /\ ~jit_failed

\* C11: execute on a configuration with zero harts (num_clusters = 0 or
\* num_cores = 0) starts no thread, completes normally, returns Ok(0) on a
\* fresh engine and leaves had_error false, whether or not the log level
\* evaluates the arguments of trace!.
C11_ZeroHartsReturnOk ==
    ZeroHartsEnded =>
        /\ hart_pc = <<>>
        /\ result.kind = "ok"
        /\ result.value = 0
        /\ ~had_error

\* byte n (from 0) of data, 0 beyond its end
ByteAt(data, n) == IF n + 1 <= Len(data) THEN data[n + 1] ELSE 0

\* the little-endian 32-bit word of data[4k..4k+4]
LeWord(data, k) ==
    ByteAt(data, 4 * k) + 256 * ByteAt(data, 4 * k + 1)
      + 65536 * ByteAt(data, 4 * k + 2) + 16777216 * ByteAt(data, 4 * k + 3)

\* the ALLOC flag of a section is set
AllocSet(section) == (section.flags \div 2) % 2 = 1

\* the addresses a + 4k, 0 <= 4k < w, of a section at a with w data bytes
WordAddrs(section) ==
    {section.addr + 4 * k : k \in {j \in 0..Len(section.data) : 4 * j < Len(section.data)}}

\* translate_elf has succeeded and execute has not been called
Translated == engine_pc = "translated"

\* C12: after translate_elf succeeds on an engine with empty memory, the
\* global memory map contains exactly the words of the sections whose ALLOC
\* flag is set: global_memory[a + 4k] is the little-endian word of
\* section.data[4k..4k+4] for every k with 0 <= 4k < w, also when w is not a
\* multiple of 4, and no address of a section whose ALLOC flag is clear is a
\* key.
C12_PreloadExact ==
    Translated =>
        /\ \A i \in DOMAIN image :
              AllocSet(image[i]) =>
                 \A k \in 0..Len(image[i].data) :
                    4 * k < Len(image[i].data) =>
                       /\ image[i].addr + 4 * k \in DOMAIN memory
                       /\ memory[image[i].addr + 4 * k] = LeWord(image[i].data, k)
        /\ DOMAIN memory =
              UNION {WordAddrs(image[i]) : i \in {j \in DOMAIN image : AllocSet(image[j])}}
        /\ \A i \in DOMAIN image :
              ~AllocSet(image[i]) => WordAddrs(image[i]) \cap DOMAIN memory = {}

\* C13: in every reachable state, after any ELF preload and any sequence of
\* binary_store calls with arbitrary (also misaligned) addresses, every key
\* of the global memory map is a multiple of 4.
C13_KeysWordAligned == \A a \in DOMAIN memory : a % 4 = 0

\* an abort callback returns in this step: a callback was invoked, it did
\* not go to wait for the lock, and what returned last is an abort
AbortReturns ==
    /\ calls' = calls + 1
    /\ req' = req
    /\ last'.op \in {"abort_escape", "abort_illegal_inst", "abort_illegal_branch"}

\* C14: an abort callback only sets had_error: it stops neither the calling
\* hart nor any other hart, and after an abort every running hart can still
\* store, load and access CSRs with the normal effect (a store to
\* 0x4000_0020 still updates exit_code) until it returns by itself; execute
\* then returns Err with exit_code holding the last value written.
C14_AbortStopsNoHart ==
    /\ [][AbortReturns =>
            /\ had_error'
            /\ hart_pc' = hart_pc
            /\ engine_pc' = engine_pc
            /\ result' = result
            /\ exit_code' = exit_code
            /\ memory' = memory
            /\ lock' = lock
            /\ cpus' = cpus
            /\ tcdms' = tcdms]_vars
    /\ []((aborted /\ engine_pc = "running") =>
            \A h \in Harts :
               (hart_pc[h] = "run" /\ calls < budget) =>
                  /\ ENABLED binary_store(h, SCRATCH_REG_ADDR, MaxVal, 0)
                  /\ ENABLED binary_store(h, 4096, MaxVal, 0)
                  /\ ENABLED binary_load(h, 4096, 0)
                  /\ ENABLED binary_csr_write(h, CSR_SSR, MaxVal)
                  /\ ENABLED binary_csr_read(h, CSR_SSR))
    /\ [][(aborted /\ StoreReturns) =>
            /\ last'.addr = SCRATCH_REG_ADDR => exit_code' = last'.value
            /\ last'.addr \notin MMIO =>
                  /\ last'.addr \in DOMAIN memory'
                  /\ memory'[last'.addr] = last'.value]_vars
    /\ []((aborted /\ last.op \in {"load", "csr_read"} /\ last.expect # -1) =>
            last.ret = last.expect)
    /\ []((aborted /\ last.op = "load" /\ last.addr = SCRATCH_REG_ADDR) =>
            last.ret = LastExitStore)
    /\ []((Returned /\ aborted) =>
            /\ result.kind = "err"
            /\ exit_code = LastExitStore)

\* the only hart of the configuration aborted, then stored 2 to the scratch
\* register and returned: execute gave Err and exit_code is 2
C14_Witness ==
    /\ Returned
    /\ Len(cpus) = 1
    /\ aborted
    /\ last.op = "store"
    /\ last.addr = SCRATCH_REG_ADDR
    /\ exit_code = 2
    /\ result.kind = "err"

\* a callback is invoked and returns in this step without waiting for the
\* lock
LockFreeReturns ==
    /\ calls' = calls + 1
    /\ req' = req

\* C15: the global-memory lock is acquired only by a binary_load or
\* binary_store whose address misses the MMIO table; loads and stores to the
\* five magic addresses, CSR reads and writes, abort callbacks and the trace
\* callback never acquire it, so they complete even while another hart
\* holds the lock.
C15_LockOnlyOnMemoryAccess ==
    /\ [][(lock' # lock /\ lock' # 0) =>
            /\ lock = 0
            /\ hart_pc[lock'] \in {"load_wait", "store_wait"}
            /\ req[lock'].addr \notin MMIO]_vars
    /\ [][LockFreeReturns =>
            /\ lock' = lock
            /\ last'.locked = lock
            /\ hart_pc' = hart_pc]_vars
    /\ [](\A h \in DOMAIN hart_pc :
            hart_pc[h] \in {"load_wait", "store_wait", "load_cs", "store_cs"} =>
               req[h].addr \notin MMIO)
    /\ [](last.op \in {"csr_read", "csr_write", "abort_escape",
                       "abort_illegal_inst", "abort_illegal_branch", "trace"}
             => last.locked # last.hart)
    /\ []((last.op \in {"load", "store"} /\ last.addr \in MMIO)
             => last.locked # last.hart)
    /\ []((lock # 0 /\ engine_pc = "running") =>
            \A h \in Harts :
               (hart_pc[h] = "run" /\ calls < budget) =>
                  /\ \A a \in MMIO :
                        /\ ENABLED binary_load(h, a, 0)
                        /\ ENABLED binary_store(h, a, MaxVal, 0)
                  /\ ENABLED binary_csr_read(h, CSR_SSR)
                  /\ ENABLED binary_csr_write(h, CSR_SSR, MaxVal)
                  /\ ENABLED binary_abort_escape(h)
                  /\ ENABLED binary_abort_illegal_inst(h)
                  /\ ENABLED binary_abort_illegal_branch(h)
                  /\ ENABLED binary_trace(h))

\* while one hart holds the lock inside a store, the other one has read a
\* CSR, which returned at once; a store of 2 to the scratch register has
\* returned as well
C15_Witness ==
    /\ lock # 0
    /\ hart_pc[lock] = "store_cs"
    /\ last.op = "csr_read"
    /\ last.hart # lock
    /\ last.locked = lock
    /\ SCRATCH_REG_ADDR \in DOMAIN stored
    /\ exit_code = 2

\* C16: execute produces its result only after every hart thread has
\* returned: no result exists while a hart is still running (so a hart
\* that never returns makes execute never return), the result is computed
\* from had_error and exit_code as they are after the join, and when every
\* guest program is finite and scheduling is fair, execute eventually
\* returns.
C16_ResultAfterJoin ==
    /\ [](engine_pc = "running" => result = NoResult)
    /\ []((\E h \in DOMAIN hart_pc : hart_pc[h] # "done") =>
             /\ result = NoResult
             /\ engine_pc = "running")
    /\ [][(engine_pc = "running" /\ engine_pc' # "running") =>
             /\ \A h \in DOMAIN hart_pc : hart_pc[h] = "done"
             /\ lock = 0
             /\ result'.kind = IF had_error THEN "err" ELSE "ok"
             /\ ~had_error => result'.value = exit_code \div 2]_vars
    /\ (engine_pc = "running") ~> (engine_pc = "returned")

\* execute has returned Err after both harts ran and returned, one of them
\* having gone through the lock
C16_Witness ==
    /\ Returned
    /\ Len(cpus) = MaxHarts
    /\ \A h \in Harts : hart_pc[h] = "done"
    /\ result.kind = "err"
    /\ calls = FairCalls
    /\ DOMAIN memory # {}

\* the harts run or have run
Started == engine_pc = "running" \/ Returned

\* C17: a load from 0x4000_0020 on any hart of any cluster returns the
\* value most recently stored to 0x4000_0020 by any hart, 0 if none:
\* exit_code is one cell of the engine shared by all harts, it is never read
\* from nor written to the global memory map, and a value preloaded into
\* the map at 0x4000_0020 is never observable.
C17_ExitCodeSharedCell ==
    /\ [](Started => exit_code = LastExitStore)
    /\ []((last.op = "load" /\ last.addr = SCRATCH_REG_ADDR) =>
             /\ last.ret = LastExitStore
             /\ last.locked # last.hart)
    /\ [](Started =>
             /\ SCRATCH_REG_ADDR \in DOMAIN memory <=>
                   SCRATCH_REG_ADDR \in DOMAIN preloaded
             /\ SCRATCH_REG_ADDR \in DOMAIN memory =>
                   memory[SCRATCH_REG_ADDR] = preloaded[SCRATCH_REG_ADDR])
    /\ [](\A h \in DOMAIN req : req[h].addr # SCRATCH_REG_ADDR)
    /\ [][exit_code' # exit_code =>
             /\ memory' = memory
             /\ lock' = lock
             /\ last'.op = "store"
             /\ last'.addr = SCRATCH_REG_ADDR
             /\ exit_code' = last'.value]_vars

\* the hart of the second cluster loaded the 1 that the hart of the first
\* cluster had stored, while the map holds the preloaded 2 at 0x4000_0020
C17_Witness ==
    /\ Len(tcdms) = 2
    /\ last.op = "load"
    /\ last.addr = SCRATCH_REG_ADDR
    /\ last.hart = 2
    /\ exit_writer = 1
    /\ last.ret = 1
    /\ SCRATCH_REG_ADDR \in DOMAIN memory
    /\ memory[SCRATCH_REG_ADDR] = 2

\* C18: if JIT creation reports an error, execute returns Err immediately:
\* no TCDM and no Cpu is created, no hart is started, no callback runs, and
\* exit_code, had_error and the global memory map are unchanged.
C18_JitErrorReturnsAtOnce ==
    /\ [](jit_failed =>
            /\ engine_pc = "returned"
            /\ result.kind = "err"
            /\ tcdms = <<>>
            /\ cpus = <<>>
            /\ hart_pc = <<>>
            /\ calls = 0
            /\ last = NoLast
            /\ exit_code = 0
            /\ ~had_error
            /\ lock = 0
            /\ memory = preloaded)
    /\ [][(jit_failed' /\ ~jit_failed) =>
            /\ engine_pc = "translated"
            /\ memory' = memory
            /\ exit_code' = exit_code
            /\ had_error' = had_error]_vars

\* JIT creation failed for a configuration with harts and a preloaded
\* image: execute returned Err, the map still holds the image
C18_Witness ==
    /\ jit_failed
    /\ result.kind = "err"
    /\ num_clusters * num_cores = MaxHarts
    /\ 4096 \in DOMAIN memory
    /\ memory[4096] = 1
    /\ cpus = <<>>

\* the harts inside the critical section of the memory map
InCriticalSection == {h \in DOMAIN hart_pc : hart_pc[h] \in {"load_cs", "store_cs"}}

\* the harts waiting for the lock
Waiting == {h \in DOMAIN hart_pc : hart_pc[h] \in {"load_wait", "store_wait"}}

\* C19: at most one hart is inside the critical section of the global
\* memory at any time; the lock is held only by a hart inside the load or
\* store that took it and is released before that callback returns, so no
\* hart holds it between callbacks, while waiting or after its thread has
\* ended; under fair scheduling every load or store that waits for the lock
\* eventually completes.
C19_MutualExclusionNoDeadlock ==
    /\ [](Cardinality(InCriticalSection) <= 1)
    /\ [](\A h \in InCriticalSection : lock = h)
    /\ [](lock # 0 => lock \in InCriticalSection)
    /\ [](engine_pc # "running" => lock = 0)
    /\ [][\A h \in DOMAIN hart_pc :
            (h \in InCriticalSection /\ hart_pc'[h] # hart_pc[h]) =>
               /\ hart_pc'[h] = "run"
               /\ lock' = 0
               /\ last'.hart = h
               /\ last'.op \in {"load", "store"}]_vars
    /\ \A h \in 1..MaxHarts :
          (h \in Waiting \/ h \in InCriticalSection)
             ~> (h \in DOMAIN hart_pc /\ hart_pc[h] \in {"run", "done"})

\* hart 1 is inside a store while hart 2 waits for the lock in a load
C19_Witness ==
    /\ lock = 1
    /\ hart_pc[1] = "store_cs"
    /\ hart_pc[2] = "load_wait"
    /\ req[1].addr = req[2].addr

\* a binary_store to an address missing the MMIO table leaves the critical
\* section in this step
MemoryStoreReturns ==
    /\ lock # 0
    /\ lock' = 0
    /\ hart_pc[lock] = "store_cs"

\* C20: the TCDM buffers are a one-time copy of low global memory: once the
\* harts run, no step of a callback changes a TCDM buffer; a binary_store
\* to an address below 0x0002_0000 changes only the global memory map, and
\* a later binary_load of that address returns the stored value from the
\* map, not the TCDM content.
C20_TcdmNotTouchedByCallbacks ==
    /\ [][engine_pc = "running" => tcdms' = tcdms]_vars
    /\ [][MemoryStoreReturns =>
            /\ req[lock].addr \in DOMAIN memory'
            /\ memory'[req[lock].addr] = req[lock].value
            /\ \A a \in DOMAIN memory' :
                  a # req[lock].addr => a \in DOMAIN memory /\ memory'[a] = memory[a]
            /\ tcdms' = tcdms
            /\ exit_code' = exit_code
            /\ had_error' = had_error
            /\ cpus' = cpus]_vars
    /\ []((last.op = "load" /\ last.addr \notin MMIO /\ last.stored_before) =>
            last.ret = stored[last.addr])
    /\ []((last.op = "load" /\ last.addr \notin MMIO /\ ~last.stored_before
              /\ last.addr \in DOMAIN preloaded) =>
            last.ret = preloaded[last.addr])

\* a load of 0x1000 returned the 2 stored there while word 0x400 of the TCDM
\* still holds the preloaded 1
C20_Witness ==
    /\ last.op = "load"
    /\ last.addr = 4096
    /\ last.stored_before
    /\ last.ret = 2
    /\ memory[4096] = 2
    /\ Len(tcdms) = 1
    /\ tcdm_word(tcdms[1], 1024) = 1

=============================================================================
